---- MODULE Spec2Model ----
(***************************************************************************)
(* The scroll-focus filter of rust-obs-plugins                             *)
(* (plugins/scroll-focus-filter/src/lib.rs): the watcher thread, the two   *)
(* crossbeam channels, and the per-frame camera tween kept in `Data`.      *)
(*                                                                         *)
(* Numbers.  The f32/f64 values of the source are modelled as exact        *)
(* rationals <<n, d>> in lowest terms with d > 0, so every comparison      *)
(* (`!= 0.`, `> 0.001`, min, max) is decided exactly.  Floating-point      *)
(* rounding and the f32 <-> f64 casts are not modelled; the inputs are     *)
(* chosen so that every value is a small fraction.                         *)
(*                                                                         *)
(* Scheduling.  The OBS host calls create, video_tick, update and the drop *)
(* of Data one at a time; the watcher thread runs concurrently with all of *)
(* them.  video_tick's loop over try_iter() is modelled one try_recv at a  *)
(* time, so that the watcher may send while a tick drains.                 *)
(***************************************************************************)
EXTENDS Integers, Sequences, FiniteSets, TLC

(***************************************************************************)
(* Exact rational arithmetic                                               *)
(***************************************************************************)
RECURSIVE GCD(_, _)
GCD(a, b) == IF b = 0 THEN a ELSE GCD(b, a % b)

IAbs(n) == IF n < 0 THEN -n ELSE n

Norm(n, d) ==
    IF n = 0 /\ d # 0 THEN <<0, 1>>
    ELSE IF d = 1 THEN <<n, 1>>
    ELSE LET g == GCD(IAbs(n), IAbs(d))
             s == IF d < 0 THEN -1 ELSE 1
         IN  <<(s * n) \div g, (s * d) \div g>>

R(n, d) == Norm(n, d)
Zero == <<0, 1>>
One == <<1, 1>>
Int2R(i) == <<i, 1>>

\* Exact arithmetic on fractions.  The short forms are used while the
\* denominators are small; otherwise common factors are cancelled before
\* multiplying, which keeps the products within 32 bits.
RAddLong(a, b) ==
    LET g == GCD(a[2], b[2])
    IN  Norm(a[1] * (b[2] \div g) + b[1] * (a[2] \div g), (a[2] \div g) * b[2])
RMulLong(a, b) ==
    LET g1 == GCD(IAbs(a[1]), b[2])
        g2 == GCD(IAbs(b[1]), a[2])
    IN  Norm((a[1] \div g1) * (b[1] \div g2), (a[2] \div g2) * (b[2] \div g1))
RLtLong(a, b) ==
    LET g == GCD(a[2], b[2])
    IN  a[1] * (b[2] \div g) < b[1] * (a[2] \div g)

RAdd(a, b) ==
    IF a[2] + b[2] < 4000
    THEN Norm(a[1] * b[2] + b[1] * a[2], a[2] * b[2])
    ELSE RAddLong(a, b)
RSub(a, b) ==
    IF a[2] + b[2] < 4000
    THEN Norm(a[1] * b[2] - b[1] * a[2], a[2] * b[2])
    ELSE RAddLong(a, <<-b[1], b[2]>>)
RMul(a, b) ==
    IF a[2] + b[2] < 4000
    THEN Norm(a[1] * b[1], a[2] * b[2])
    ELSE RMulLong(a, b)
RDiv(a, b) == Norm(a[1] * b[2], a[2] * b[1])
RLt(a, b) ==
    IF a[2] + b[2] < 4000 THEN a[1] * b[2] < b[1] * a[2] ELSE RLtLong(a, b)
RLe(a, b) ==
    IF a[2] + b[2] < 4000 THEN a[1] * b[2] <= b[1] * a[2] ELSE ~RLtLong(b, a)
RMax(a, b) == IF RLt(a, b) THEN b ELSE a
RMin(a, b) == IF RLt(b, a) THEN b ELSE a
RAbs(a) == <<IAbs(a[1]), a[2]>>

(***************************************************************************)
(* Program constants                                                       *)
(***************************************************************************)
DEFAULT_SCREEN_X == 0
DEFAULT_SCREEN_Y == 0
DEFAULT_SCREEN_WIDTH == 1920
DEFAULT_SCREEN_HEIGHT == 1080
DEFAULT_ZOOM == One
DEFAULT_ANIMATION_TIME == R(3, 10)

\* The +0.1 margin of window_zoom and the 0.001 hysteresis threshold.
ZoomMargin == R(1, 10)
Hysteresis == R(1, 1000)

\* The declared bounds of the six properties (create's PropertyDescriptors).
ZoomMin == One
ZoomMax == Int2R(5)
ScreenPosMin == 0
ScreenSizeMin == 1
ScreenMax == 3840 * 3
AnimationTimeMin == R(3, 10)
AnimationTimeMax == Int2R(10)

(***************************************************************************)
(* Bounds of the model                                                     *)
(***************************************************************************)
\* Snapshots the watcher sends in one run.
MaxSnapshots == 3
\* Configuration updates in one run.
MaxUpdates == 2

(***************************************************************************)
(* Inputs                                                                  *)
(***************************************************************************)
Snap(x, y, w, h) == [x |-> x, y |-> y, width |-> w, height |-> h]

\* Window geometries reported by the watcher: a small window at the bottom
\* right, a small window on the left edge, a window whose origin is right of
\* the default region, and a window covering the whole default region.
SnapBottomRight == Snap(1728, 972, 192, 108)
SnapLeftEdge == Snap(0, 540, 192, 108)
SnapOffRight == Snap(2000, 100, 192, 108)
SnapFull == Snap(0, 0, 1920, 1080)
Snapshots == {SnapBottomRight, SnapLeftEdge, SnapOffRight, SnapFull}

Settings(z, sx, sy, sw, sh, at) ==
    [zoom |-> z, screen_x |-> sx, screen_y |-> sy,
     screen_width |-> sw, screen_height |-> sh, animation_time |-> at]

\* What the settings layer returns to update when every value is within the
\* bounds its property declares.
SettingsInRange ==
    { Settings(Int2R(5), 0, 0, 1920, 1080, R(3, 5)),
      Settings(Int2R(1), 0, 0, 1920, 1080, R(3, 5)),
      Settings(Int2R(2), 960, 540, 960, 540, R(3, 10)) }

\* Values obs_data can hold that are outside the declared bounds (a saved
\* scene file or a script writes them without going through the widgets).
SettingsOutOfRange ==
    { Settings(Int2R(10), 0, 0, 1920, 1080, R(3, 10)),
      Settings(Int2R(5), 20000, 0, 1920, 1080, R(3, 10)),
      Settings(Int2R(5), 0, 0, 20000, 20000, R(1, 10)) }

\* Frame times handed to video_tick (seconds).
FrameTimes == {Zero, R(3, 10), R(3, 5)}

(***************************************************************************)
(* State                                                                   *)
(***************************************************************************)
VARIABLES
    data,           \* the fields of Data the tween uses
    filter,         \* "alive" | "destroyed": whether Data exists
    tick,           \* "idle" | "drain": video_tick's position
    server_chan,    \* Snapshot messages in flight, watcher -> filter
    filter_chan,    \* CloseConnection messages in flight, filter -> watcher
    watcher,        \* "start" | "wait" | "check" | "exit" | "panicked"
    \* history variables
    last,           \* the handler that last completed on Data
    nSent,          \* snapshots the watcher has sent so far (their ids)
    processed,      \* ids of the snapshots the retarget logic has processed
    tickStart,      \* ids queued when the current/last tick began
    nUpdates,       \* updates so far
    sinceOff,       \* TRUE: last processed snapshot was off-region, no update since
    shutdown,       \* "no" | "enqueued" | "discarded": the owner's send
    watcherDiscards,\* TRUE once a watcher send found the receiver gone
    waitsAfterShutdown, \* wait_for_event calls begun after the shutdown send
    tracking,       \* TRUE in the specifications that record lastSnap,
                    \* elapsed, pending, inTick and
                    \* sentAtShutdown; it never changes
    pending,        \* <<d>> for the Data d the last update found, until the
                    \* next tick has ended; <<>> otherwise
    inTick,         \* during a tick: <<[start |-> the Data the tick found,
                    \* commits |-> the snapshots it committed so far]>>;
                    \* <<>> otherwise
    sentAtShutdown, \* <<n>> once the owner has sent the shutdown message,
                    \* n being nSent at that moment; <<>> before
    lastSnap,       \* <<s>> for the snapshot s processed last, <<>> when none
                    \* was processed since create/update
    elapsed,        \* seconds ticked since from/target/animation_time last
                    \* changed, counted up to animation_time
    probe,          \* input and output of a pure function under test
    cd              \* a ContextDependent value and its wrappers (context.rs)

vars == <<data, filter, tick, server_chan, filter_chan, watcher, last, nSent,
          processed, tickStart, nUpdates, sinceOff, shutdown, watcherDiscards,
          waitsAfterShutdown, lastSnap, tracking, pending, inTick,
          sentAtShutdown, elapsed, probe, cd>>

(***************************************************************************)
(* The retarget decision logic and the animation engine (pure)             *)
(***************************************************************************)
\* WindowZoom without `.max(data.internal_zoom)`.
WindowZoomNoFloor(d, s) ==
    RMin(RAdd(RMax(RDiv(Int2R(s.width), Int2R(d.screen_width)),
                   RDiv(Int2R(s.height), Int2R(d.screen_height))),
              ZoomMargin),
         One)

\* lib.rs 114-119 without the `.min(1.)`: margin added, floor kept, no cap.
WindowZoomNoCeiling(d, s) ==
    RMax(RAdd(RMax(RDiv(Int2R(s.width), Int2R(d.screen_width)),
                   RDiv(Int2R(s.height), Int2R(d.screen_height))),
              ZoomMargin),
         d.internal_zoom)

\* lib.rs 114-119 without the `+ 0.1`.
WindowZoomNoMargin(d, s) ==
    RMin(RMax(RMax(RDiv(Int2R(s.width), Int2R(d.screen_width)),
                   RDiv(Int2R(s.height), Int2R(d.screen_height))),
              d.internal_zoom),
         One)

\* lib.rs 114-119
WindowZoom(d, s) ==
    RMin(RMax(RAdd(RMax(RDiv(Int2R(s.width), Int2R(d.screen_width)),
                        RDiv(Int2R(s.height), Int2R(d.screen_height))),
                   ZoomMargin),
              d.internal_zoom),
         One)

\* lib.rs 121-124: only the snapshot's top-left corner is tested.
OffRegion(d, s) ==
    \/ s.x > d.screen_width + d.screen_x
    \/ s.x < d.screen_x
    \/ s.y < d.screen_y
    \/ s.y > d.screen_height + d.screen_y

\* The guard of lib.rs 126-128 left out: an off-region snapshot always
\* retargets.
NotRestingAlways(d) == TRUE

\* lib.rs 126-128: the guard of the off-region retarget.
NotResting(d) ==
    /\ d.target_zoom # One
    /\ d.target[1] # Zero
    /\ d.target[2] # Zero

\* lib.rs 130-135
RetargetToRest(d) ==
    [d EXCEPT !.progress = Zero,
              !.from_zoom = d.current_zoom,
              !.target_zoom = One,
              !.from = d.current,
              !.target = <<Zero, Zero>>]

\* lib.rs 138-141: the window's center as a fraction of the region.
CenterX(d, s) ==
    RDiv(RSub(RAdd(Int2R(s.x), RDiv(Int2R(s.width), Int2R(2))), Int2R(d.screen_x)),
         Int2R(d.screen_width))
CenterY(d, s) ==
    RDiv(RSub(RAdd(Int2R(s.y), RDiv(Int2R(s.height), Int2R(2))), Int2R(d.screen_y)),
         Int2R(d.screen_height))

\* lib.rs 143-149 without the `.max(0.)`.
ClampPanNoFloor(c, wz) == RMin(RSub(c, RMul(R(1, 2), wz)), RSub(One, wz))

\* lib.rs 143-149 without the `.min(1. - window_zoom)`.
ClampPanNoCeiling(c, wz) == RMax(RSub(c, RMul(R(1, 2), wz)), Zero)

\* lib.rs 143-149: (c - 0.5 * window_zoom).min(1 - window_zoom).max(0)
ClampPan(c, wz) ==
    RMax(RMin(RSub(c, RMul(R(1, 2), wz)), RSub(One, wz)), Zero)
TargetX(d, s) == ClampPan(CenterX(d, s), WindowZoom(d, s))
TargetY(d, s) == ClampPan(CenterY(d, s), WindowZoom(d, s))

\* The test of lib.rs 151-153 with the 0.001 threshold left out: every
\* on-region snapshot commits.
MovedAlways(d, tx, ty, wz) == TRUE

\* The test of lib.rs 151-153 with the zoom comparison alone.
MovedZoomOnly(d, tx, ty, wz) ==
    RLt(Hysteresis, RAbs(RSub(wz, d.target_zoom)))

\* The test of lib.rs 151-153 with the threshold itself counted as a move.
MovedInclusive(d, tx, ty, wz) ==
    \/ RLe(Hysteresis, RAbs(RSub(ty, d.target[2])))
    \/ RLe(Hysteresis, RAbs(RSub(tx, d.target[1])))
    \/ RLe(Hysteresis, RAbs(RSub(wz, d.target_zoom)))

\* lib.rs 151-153
Moved(d, tx, ty, wz) ==
    \/ RLt(Hysteresis, RAbs(RSub(ty, d.target[2])))
    \/ RLt(Hysteresis, RAbs(RSub(tx, d.target[1])))
    \/ RLt(Hysteresis, RAbs(RSub(wz, d.target_zoom)))

\* lib.rs 155-161 with the tween started from the old target in place of
\* the camera's position.
CommitFromOldTarget(d, tx, ty, wz) ==
    [d EXCEPT !.progress = Zero,
              !.from_zoom = d.target_zoom,
              !.target_zoom = wz,
              !.from = d.target,
              !.target = <<tx, ty>>]

\* lib.rs 155-161 without `data.progress = 0.`.
CommitKeepsProgress(d, tx, ty, wz) ==
    [d EXCEPT !.from_zoom = d.current_zoom,
              !.target_zoom = wz,
              !.from = d.current,
              !.target = <<tx, ty>>]

\* lib.rs 155-161
Commit(d, tx, ty, wz) ==
    [d EXCEPT !.progress = Zero,
              !.from_zoom = d.current_zoom,
              !.target_zoom = wz,
              !.from = d.current,
              !.target = <<tx, ty>>]

\* lib.rs 113-164: the body of the loop for one Snapshot message.
ProcessSnapshot(d, s) ==
    IF OffRegion(d, s)
    THEN IF NotResting(d) THEN RetargetToRest(d) ELSE d
    ELSE LET wz == WindowZoom(d, s)
             tx == TargetX(d, s)
             ty == TargetY(d, s)
         IN  IF Moved(d, tx, ty, wz) THEN Commit(d, tx, ty, wz) ELSE d

\* lib.rs 103-106 without the clamp of line 104.
smooth_stepNoClamp(x) == RMul(RMul(x, x), RSub(Int2R(3), RMul(Int2R(2), x)))

\* lib.rs 103-106
smooth_step(x) ==
    LET t == RMin(RMax(RDiv(x, One), Zero), One)
    IN  RMul(RMul(t, t), RSub(Int2R(3), RMul(Int2R(2), t)))

\* The interpolation of lib.rs 172-178 without the subtraction of `from`.
LerpNoFrom(a, b, p) == RAdd(a, RMul(b, p))

\* lib.rs 172-178: from + (target - from) * smooth_step(progress)
Lerp(a, b, p) == RAdd(a, RMul(RSub(b, a), p))

\* lib.rs 168-178 without the `.min(1.)` of line 168.
AnimateNoMin(d, seconds) ==
    LET progress == RAdd(d.progress, RDiv(seconds, d.animation_time))
        adjusted_progress == smooth_step(progress)
    IN  [d EXCEPT !.progress = progress,
                  !.current = <<Lerp(d.from[1], d.target[1], adjusted_progress),
                                Lerp(d.from[2], d.target[2], adjusted_progress)>>,
                  !.current_zoom = Lerp(d.from_zoom, d.target_zoom, adjusted_progress)]

\* lib.rs 168-178 with the tween's start moved along with the camera.
AnimateMovesFrom(d, seconds) ==
    LET progress == RMin(RAdd(d.progress, RDiv(seconds, d.animation_time)), One)
        adjusted_progress == smooth_step(progress)
        current == <<Lerp(d.from[1], d.target[1], adjusted_progress),
                     Lerp(d.from[2], d.target[2], adjusted_progress)>>
    IN  [d EXCEPT !.progress = progress,
                  !.from = current,
                  !.current = current,
                  !.current_zoom = Lerp(d.from_zoom, d.target_zoom, adjusted_progress)]

\* lib.rs 168-178
Animate(d, seconds) ==
    LET progress == RMin(RAdd(d.progress, RDiv(seconds, d.animation_time)), One)
        adjusted_progress == smooth_step(progress)
    IN  [d EXCEPT !.progress = progress,
                  !.current = <<Lerp(d.from[1], d.target[1], adjusted_progress),
                                Lerp(d.from[2], d.target[2], adjusted_progress)>>,
                  !.current_zoom = Lerp(d.from_zoom, d.target_zoom, adjusted_progress)]

\* lib.rs 216-217: what video_render hands to the shader.
param_add(d) == d.current
param_mul(d) == <<d.current_zoom, d.current_zoom>>

\* properties.rs 110-113 and 160-163: get_property_value returns what
\* obs_data holds, as it is.
get_property_value(stored) == stored

\* `as u32` of an i32 (lib.rs 391-400).  The inputs of the model are >= 0,
\* where the cast keeps the value.
AsU32(v) == IF v >= 0 THEN v ELSE (v + 2147483647) + 2147483647 + 2

\* lib.rs 385-402 with `data.progress = 0.` added, as a retarget does.
UpdateDataResetsProgress(d, st) ==
    LET zoom == get_property_value(st.zoom)
    IN  [d EXCEPT !.progress = Zero,
                  !.from_zoom = d.current_zoom,
                  !.internal_zoom = RDiv(One, zoom),
                  !.target_zoom = RDiv(One, zoom),
                  !.screen_width = AsU32(get_property_value(st.screen_width)),
                  !.screen_height = AsU32(get_property_value(st.screen_height)),
                  !.screen_x = AsU32(get_property_value(st.screen_x)),
                  !.screen_y = AsU32(get_property_value(st.screen_y)),
                  !.animation_time = get_property_value(st.animation_time)]

\* lib.rs 385-402
UpdateData(d, st) ==
    LET zoom == get_property_value(st.zoom)
    IN  [d EXCEPT !.from_zoom = d.current_zoom,
                  !.internal_zoom = RDiv(One, zoom),
                  !.target_zoom = RDiv(One, zoom),
                  !.screen_width = AsU32(get_property_value(st.screen_width)),
                  !.screen_height = AsU32(get_property_value(st.screen_height)),
                  !.screen_x = AsU32(get_property_value(st.screen_x)),
                  !.screen_y = AsU32(get_property_value(st.screen_y)),
                  !.animation_time = get_property_value(st.animation_time)]

\* lib.rs 283-311 with `progress: 0.` in place of `progress: 1.`.
InitialDataProgressZero ==
    [animation_time |-> DEFAULT_ANIMATION_TIME,
     current_zoom |-> DEFAULT_ZOOM,
     from_zoom |-> DEFAULT_ZOOM,
     target_zoom |-> DEFAULT_ZOOM,
     internal_zoom |-> DEFAULT_ZOOM,
     current |-> <<Zero, Zero>>,
     from |-> <<Zero, Zero>>,
     target |-> <<Zero, Zero>>,
     progress |-> Zero,
     screen_height |-> DEFAULT_SCREEN_HEIGHT,
     screen_width |-> DEFAULT_SCREEN_WIDTH,
     screen_x |-> DEFAULT_SCREEN_X,
     screen_y |-> DEFAULT_SCREEN_Y]

\* lib.rs 249-254, 292-311: the Data create returns.
InitialData ==
    [animation_time |-> DEFAULT_ANIMATION_TIME,
     current_zoom |-> DEFAULT_ZOOM,
     from_zoom |-> DEFAULT_ZOOM,
     target_zoom |-> DEFAULT_ZOOM,
     internal_zoom |-> DEFAULT_ZOOM,
     current |-> <<Zero, Zero>>,
     from |-> <<Zero, Zero>>,
     target |-> <<Zero, Zero>>,
     progress |-> One,
     screen_height |-> DEFAULT_SCREEN_HEIGHT,
     screen_width |-> DEFAULT_SCREEN_WIDTH,
     screen_x |-> DEFAULT_SCREEN_X,
     screen_y |-> DEFAULT_SCREEN_Y]

(***************************************************************************)
(* The channels (crossbeam unbounded)                                      *)
(***************************************************************************)
\* Sender::send: the message is appended while the receiver exists, and is
\* handed back as an error (here: the queue unchanged) once it is gone.
ChanSend(q, receiverAlive, m) == IF receiverAlive THEN Append(q, m) ELSE q

\* A channel that hands out the newest message first.
ChanNextNewest(q) == q[Len(q)]

\* Receiver::try_recv / one step of try_iter: the oldest message, if any.
ChanHasNext(q) == q # <<>>
ChanNext(q) == Head(q)
ChanRest(q) == Tail(q)

\* The receiving ends: Data.receive lives as long as Data (Drop::drop for
\* Data runs before its fields are dropped), receive_filter as long as the
\* watcher's closure.
ServerReceiverAlive == filter \in {"alive", "dropping"}
FilterReceiverAlive == watcher \in {"start", "wait", "check"}

(***************************************************************************)
(* Init: the state when create has returned                                *)
(***************************************************************************)
\* lib.rs 258-283: create spawns the watcher thread and returns Data without
\* waiting for Server::new.
Init ==
    /\ data = InitialData
    /\ filter = "alive"
    /\ tick = "idle"
    /\ server_chan = <<>>
    /\ filter_chan = <<>>
    /\ watcher = "start"
    /\ last = "create"
    /\ nSent = 0
    /\ processed = <<>>
    /\ tickStart = {}
    /\ nUpdates = 0
    /\ sinceOff = FALSE
    /\ shutdown = "no"
    /\ watcherDiscards = FALSE
    /\ waitsAfterShutdown = 0
    /\ lastSnap = <<>>
    /\ tracking = FALSE
    /\ pending = <<>>
    /\ inTick = <<>>
    /\ sentAtShutdown = <<>>
    /\ elapsed = Zero
    /\ probe = <<>>
    /\ cd = <<>>

(***************************************************************************)
(* The watcher thread (lib.rs 261-279)                                     *)
(***************************************************************************)
\* History only: counts up to "more than one".
EnterWait ==
    waitsAfterShutdown' =
        IF shutdown = "no" \/ waitsAfterShutdown > 1
        THEN waitsAfterShutdown
        ELSE waitsAfterShutdown + 1

\* lib.rs 262: Server::new().unwrap() succeeds and the loop begins its
\* first wait_for_event.
WatcherNewOk ==
    /\ watcher = "start"
    /\ watcher' = "wait"
    /\ EnterWait
    /\ UNCHANGED <<data, filter, tick, server_chan, filter_chan, last, nSent,
                   processed, tickStart, nUpdates, sinceOff, shutdown,
                   watcherDiscards, lastSnap, tracking, pending, inTick,
                   sentAtShutdown, elapsed, probe, cd>>

\* lib.rs 262: Server::new() fails, unwrap panics, the thread ends and drops
\* send_server and receive_filter (with what receive_filter still holds).
WatcherNewErr ==
    /\ watcher = "start"
    /\ watcher' = "panicked"
    /\ filter_chan' = <<>>
    /\ UNCHANGED <<data, filter, tick, server_chan, last, nSent, processed,
                   tickStart, nUpdates, sinceOff, shutdown, watcherDiscards,
                   waitsAfterShutdown, lastSnap, tracking, pending, inTick,
                   sentAtShutdown, elapsed, probe, cd>>

\* The shutdown check placed in an `else` of `if let Some(snapshot)`.
AfterEventSnapshotSkipsCheck(got) == IF got THEN "wait" ELSE "check"

\* The shutdown check placed inside `if let Some(snapshot)`.
AfterEventOnlySnapshot(got) == IF got THEN "check" ELSE "wait"

\* lib.rs 265-271: where the loop goes when wait_for_event has returned,
\* with a snapshot (got) or without: the shutdown check, either way.
AfterEvent(got) == "check"

\* `.unwrap()` in place of `.unwrap_or(())`.
WatcherOnSendErrorUnwrap(next) == "panicked"

\* lib.rs 266-268: what the watcher does with a failed send: unwrap_or(()).
WatcherOnSendError(next) == next

\* lib.rs 265-269: wait_for_event returns Some(snapshot), which is sent.
WatcherSnapshot(s) ==
    /\ watcher = "wait"
    /\ nSent < MaxSnapshots
    /\ nSent' = nSent + 1
    /\ server_chan' = ChanSend(server_chan, ServerReceiverAlive,
                               [id |-> nSent + 1, snap |-> s])
    /\ watcherDiscards' = (watcherDiscards \/ ~ServerReceiverAlive)
    /\ watcher' = IF ServerReceiverAlive THEN AfterEvent(TRUE)
                  ELSE WatcherOnSendError(AfterEvent(TRUE))
    /\ UNCHANGED <<data, filter, tick, filter_chan, last, processed,
                   tickStart, nUpdates, sinceOff, shutdown,
                   waitsAfterShutdown, lastSnap, tracking, pending, inTick,
                   sentAtShutdown, elapsed, probe, cd>>

\* lib.rs 265: wait_for_event returns None.
WatcherNoSnapshot ==
    /\ watcher = "wait"
    /\ watcher' = AfterEvent(FALSE)
    /\ IF watcher' = "wait" THEN EnterWait ELSE UNCHANGED waitsAfterShutdown
    /\ UNCHANGED <<data, filter, tick, server_chan, filter_chan, last, nSent,
                   processed, tickStart, nUpdates, sinceOff, shutdown,
                   watcherDiscards, lastSnap, tracking, pending, inTick,
                   sentAtShutdown, elapsed, probe, cd>>

\* lib.rs 271-277: try_recv on the shutdown channel.
WatcherCheckClose ==
    /\ watcher = "check"
    /\ ChanHasNext(filter_chan)
    /\ ChanNext(filter_chan) = "CloseConnection"
    /\ filter_chan' = <<>>
    /\ watcher' = "exit"
    /\ UNCHANGED <<data, filter, tick, server_chan, last, nSent, processed,
                   tickStart, nUpdates, sinceOff, shutdown, watcherDiscards,
                   waitsAfterShutdown, lastSnap, tracking, pending, inTick,
                   sentAtShutdown, elapsed, probe, cd>>

WatcherCheckEmpty ==
    /\ watcher = "check"
    /\ ~ChanHasNext(filter_chan)
    /\ watcher' = "wait"
    /\ EnterWait
    /\ UNCHANGED <<data, filter, tick, server_chan, filter_chan, last, nSent,
                   processed, tickStart, nUpdates, sinceOff, shutdown,
                   watcherDiscards, lastSnap, tracking, pending, inTick,
                   sentAtShutdown, elapsed, probe, cd>>

(***************************************************************************)
(* video_tick (lib.rs 109-180)                                             *)
(***************************************************************************)
Ids(q) == {q[i].id : i \in 1..Len(q)}

\* lib.rs 109-111: the tick begins.
TickStart ==
    /\ filter = "alive"
    /\ tick = "idle"
    /\ tick' = "drain"
    /\ tickStart' = Ids(server_chan)
    /\ inTick' = IF tracking
                 THEN <<[start |-> data, commits |-> <<>>]>>
                 ELSE inTick
    /\ UNCHANGED <<data, filter, server_chan, filter_chan, watcher, last,
                   nSent, processed, nUpdates, sinceOff, shutdown,
                   watcherDiscards, waitsAfterShutdown, lastSnap, tracking,
                   pending, sentAtShutdown, elapsed, probe, cd>>

\* lib.rs 111-165: try_iter yields a message, which is processed.
TickRecv ==
    /\ tick = "drain"
    /\ ChanHasNext(server_chan)
    /\ LET m == ChanNext(server_chan)
       IN  /\ data' = ProcessSnapshot(data, m.snap)
           /\ processed' = Append(processed, m.id)
           /\ sinceOff' = OffRegion(data, m.snap)
           /\ lastSnap' = IF tracking THEN <<m.snap>> ELSE lastSnap
           /\ inTick' = IF tracking /\ data' # data
                        THEN <<[inTick[1] EXCEPT !.commits = Append(@,
                        m.snap)]>>
                        ELSE inTick
    /\ elapsed' = IF tracking /\ data' # data THEN Zero ELSE elapsed
    /\ server_chan' = ChanRest(server_chan)
    /\ last' = "recv"
    /\ UNCHANGED <<filter, tick, filter_chan, watcher, nSent, tickStart,
                   nUpdates, shutdown, watcherDiscards, waitsAfterShutdown,
                   tracking, pending, sentAtShutdown, probe, cd>>

\* `iter()` in place of `try_iter()`: it ends only when the channel is
\* empty and every sender is gone.
IterEnds(q, senderAlive) == ~ChanHasNext(q) /\ ~senderAlive

\* lib.rs 111: try_iter ends as soon as the channel is empty.
TryIterEnds(q, senderAlive) == ~ChanHasNext(q)

\* The sending end send_server lives as long as the watcher's closure.
ServerSenderAlive == watcher \in {"start", "wait", "check"}

\* When the loop of lib.rs 111 can be left: the enabling condition of
\* TickEnd.
TickCanEnd == tick = "drain" /\ TryIterEnds(server_chan, ServerSenderAlive)

\* lib.rs 111, 168-178: try_iter is exhausted; the animation advances.
TickEnd(seconds) ==
    /\ TickCanEnd
    /\ data' = Animate(data, seconds)
    /\ elapsed' = IF tracking
                  THEN RMin(RAdd(elapsed, seconds), data.animation_time)
                  ELSE elapsed
    /\ pending' = <<>>
    /\ inTick' = <<>>
    /\ tick' = "idle"
    /\ last' = "tick"
    /\ UNCHANGED <<filter, server_chan, filter_chan, watcher, nSent,
                   processed, tickStart, nUpdates, sinceOff, shutdown,
                   watcherDiscards, waitsAfterShutdown, tracking, lastSnap,
                   sentAtShutdown, probe, cd>>

(***************************************************************************)
(* update (lib.rs 378-405)                                                 *)
(***************************************************************************)
Update(st) ==
    /\ filter = "alive"
    /\ tick = "idle"
    /\ nUpdates < MaxUpdates
    /\ nUpdates' = nUpdates + 1
    /\ data' = UpdateData(data, st)
    /\ last' = "update"
    /\ sinceOff' = FALSE
    /\ lastSnap' = <<>>
    /\ elapsed' = Zero
    /\ pending' = IF tracking THEN <<data>> ELSE pending
    /\ UNCHANGED <<filter, tick, server_chan, filter_chan, watcher, nSent,
                   processed, tickStart, shutdown, watcherDiscards,
                   waitsAfterShutdown, tracking, inTick, sentAtShutdown,
                   probe, cd>>

(***************************************************************************)
(* Drop for Data (lib.rs 62-66)                                            *)
(***************************************************************************)
\* `.unwrap()` in place of `.unwrap_or(())`.
OwnerOnSendErrorUnwrap(next) == "drop_panicked"

\* lib.rs 64: what the owner does with a failed send: unwrap_or(()).
OwnerOnSendError(next) == next

\* The shutdown message is sent, then the fields are dropped, Data.receive
\* and what it still holds among them.
Destroy ==
    /\ filter = "alive"
    /\ tick = "idle"
    /\ filter_chan' = ChanSend(filter_chan, FilterReceiverAlive, "CloseConnection")
    /\ shutdown' = IF FilterReceiverAlive THEN "enqueued" ELSE "discarded"
    /\ filter' = IF FilterReceiverAlive THEN "destroyed"
                 ELSE OwnerOnSendError("destroyed")
    /\ server_chan' = <<>>
    /\ sentAtShutdown' = IF tracking THEN <<nSent>> ELSE sentAtShutdown
    /\ UNCHANGED <<data, tick, watcher, last, nSent, processed, tickStart,
                   nUpdates, sinceOff, watcherDiscards, waitsAfterShutdown,
                   lastSnap, tracking, pending, inTick, elapsed, probe, cd>>

(***************************************************************************)
(* Specifications                                                          *)
(***************************************************************************)
Watcher ==
    \/ WatcherNewOk
    \/ WatcherNewErr
    \/ \E s \in Snapshots : WatcherSnapshot(s)
    \/ WatcherNoSnapshot
    \/ WatcherCheckClose
    \/ WatcherCheckEmpty

Tick ==
    \/ TickStart
    \/ TickRecv
    \/ \E seconds \in FrameTimes : TickEnd(seconds)

\* The settings layer returns values within the declared bounds.
Next ==
    \/ Watcher
    \/ Tick
    \/ \E st \in SettingsInRange : Update(st)
    \/ Destroy

Spec == Init /\ [][Next]_vars

\* The settings layer returns whatever obs_data holds.
NextRaw ==
    \/ Watcher
    \/ Tick
    \/ \E st \in SettingsInRange \cup SettingsOutOfRange : Update(st)
    \/ Destroy

SpecRaw == Init /\ [][NextRaw]_vars

(***************************************************************************)
(* The candidate computation on its own                                    *)
(*                                                                         *)
(* A specification for what video_tick computes from a snapshot: the       *)
(* filter has been created, its settings applied at most once, and the     *)
(* watcher has queued up to MaxQueued snapshots drawn from a wider set of  *)
(* window geometries; from there ticks run, and between two ticks the      *)
(* watcher may send further snapshots (MaxSnapshots in all).               *)
(***************************************************************************)
MaxQueued == 2

\* Origin inside every region used, center beyond the right and bottom edge.
SnapCenterOut == Snap(1900, 1070, 192, 108)
\* A 100x100 window in the middle of the screen, and one at its origin.
SnapSmallMid == Snap(960, 540, 100, 100)
SnapSmallOrigin == Snap(0, 0, 100, 100)
\* Three windows one pixel apart: in a region 1000 pixels wide their pans
\* are 0.001 apart.
SnapStep0 == Snap(400, 400, 200, 200)
SnapStep1 == Snap(401, 400, 200, 200)
SnapStep2 == Snap(402, 400, 200, 200)
GeomSnapshots ==
    Snapshots \cup {SnapCenterOut, SnapSmallMid, SnapSmallOrigin,
                    SnapStep0, SnapStep1, SnapStep2}

\* Settings within the declared bounds, with a region of 1000 x 1000 pixels
\* among them.
CandidateSettings ==
    SettingsInRange \cup {Settings(Int2R(5), 0, 0, 1000, 1000, R(3, 5))}

\* The queues the watcher can have filled: 1..MaxQueued snapshots, numbered
\* in the order sent.
QueuedSnapshots ==
    UNION {[1..n -> GeomSnapshots] : n \in 1..MaxQueued}

InitCandidate ==
    /\ \/ data = InitialData /\ nUpdates = 0 /\ last = "create"
       \/ /\ \E st \in CandidateSettings : data = UpdateData(InitialData, st)
          /\ nUpdates = 1
          /\ last = "update"
    /\ \E q \in QueuedSnapshots :
          /\ server_chan = [i \in 1..Len(q) |-> [id |-> i, snap |-> q[i]]]
          /\ nSent = Len(q)
    /\ filter = "alive"
    /\ tick = "idle"
    /\ filter_chan = <<>>
    /\ watcher = "wait"
    /\ processed = <<>>
    /\ tickStart = {}
    /\ sinceOff = FALSE
    /\ shutdown = "no"
    /\ watcherDiscards = FALSE
    /\ waitsAfterShutdown = 0
    /\ lastSnap = <<>>
    /\ tracking = TRUE
    /\ pending = <<>>
    /\ inTick = <<>>
    /\ sentAtShutdown = <<>>
    /\ elapsed = Zero
    /\ probe = <<>>
    /\ cd = <<>>

\* The snapshots that arrive while an animation is under way.
LateSnapshots == {SnapStep2, SnapFull}

\* The watcher sends between two ticks.
SendBetweenTicks == tick = "idle" /\ \E s \in LateSnapshots : WatcherSnapshot(s)

NextCandidate ==
    \/ Tick
    \/ SendBetweenTicks
    \/ WatcherCheckEmpty

SpecCandidate == InitCandidate /\ [][NextCandidate]_vars

(***************************************************************************)
(* update between ticks, with the watcher sending                          *)
(***************************************************************************)
\* The state after create (lib.rs 226-374), the watcher waiting for its
\* first event.
InitUpdate ==
    /\ data = InitialData
    /\ nUpdates = 0
    /\ last = "create"
    /\ server_chan = <<>>
    /\ nSent = 0
    /\ filter = "alive"
    /\ tick = "idle"
    /\ filter_chan = <<>>
    /\ watcher = "wait"
    /\ processed = <<>>
    /\ tickStart = {}
    /\ sinceOff = FALSE
    /\ shutdown = "no"
    /\ watcherDiscards = FALSE
    /\ waitsAfterShutdown = 0
    /\ lastSnap = <<>>
    /\ tracking = TRUE
    /\ pending = <<>>
    /\ inTick = <<>>
    /\ sentAtShutdown = <<>>
    /\ elapsed = Zero
    /\ probe = <<>>
    /\ cd = <<>>

NextUpdate ==
    \/ Tick
    \/ SendBetweenTicks
    \/ WatcherCheckEmpty
    \/ \E st \in CandidateSettings : Update(st)

SpecUpdate == InitUpdate /\ [][NextUpdate]_vars

(***************************************************************************)
(* Destruction in two steps, against the watcher loop                      *)
(***************************************************************************)
\* lib.rs 62-66: Drop::drop for Data sends the shutdown message.  The fields
\* of Data, `receive` among them, are still in place when it returns.
DropSend ==
    /\ filter = "alive"
    /\ tick = "idle"
    /\ filter_chan' = ChanSend(filter_chan, FilterReceiverAlive, "CloseConnection")
    /\ shutdown' = IF FilterReceiverAlive THEN "enqueued" ELSE "discarded"
    /\ filter' = IF FilterReceiverAlive THEN "dropping"
                 ELSE OwnerOnSendError("dropping")
    /\ sentAtShutdown' = IF tracking THEN <<nSent>> ELSE sentAtShutdown
    /\ UNCHANGED <<data, tick, server_chan, watcher, last, nSent, processed,
                   tickStart, nUpdates, sinceOff, watcherDiscards,
                   waitsAfterShutdown, lastSnap, tracking, pending, inTick,
                   elapsed, probe, cd>>

\* After Drop::drop the fields of Data are dropped: `receive` goes, with the
\* snapshots it still holds.
DropFields ==
    /\ filter = "dropping"
    /\ filter' = "destroyed"
    /\ server_chan' = <<>>
    /\ UNCHANGED <<data, tick, filter_chan, watcher, last, nSent, processed,
                   tickStart, nUpdates, sinceOff, shutdown, watcherDiscards,
                   waitsAfterShutdown, lastSnap, tracking, pending, inTick,
                   sentAtShutdown, elapsed, probe, cd>>

\* The state when create has returned, with the history variables recorded.
InitShutdown ==
    /\ data = InitialData
    /\ filter = "alive"
    /\ tick = "idle"
    /\ server_chan = <<>>
    /\ filter_chan = <<>>
    /\ watcher = "start"
    /\ last = "create"
    /\ nSent = 0
    /\ processed = <<>>
    /\ tickStart = {}
    /\ nUpdates = 0
    /\ sinceOff = FALSE
    /\ shutdown = "no"
    /\ watcherDiscards = FALSE
    /\ waitsAfterShutdown = 0
    /\ lastSnap = <<>>
    /\ tracking = TRUE
    /\ pending = <<>>
    /\ inTick = <<>>
    /\ sentAtShutdown = <<>>
    /\ elapsed = Zero
    /\ probe = <<>>
    /\ cd = <<>>

NextShutdown ==
    \/ Watcher
    \/ Tick
    \/ DropSend
    \/ DropFields

SpecShutdown == InitShutdown /\ [][NextShutdown]_vars

(***************************************************************************)
(* smooth_step on its own                                                  *)
(*                                                                         *)
(* A specification that draws two arguments from a grid reaching below 0   *)
(* and above 1 and applies smooth_step to both, as Animate does to         *)
(* progress (lib.rs 170).                                                  *)
(***************************************************************************)
SmoothDenominator == 16

\* k / SmoothDenominator from -1/4 to 5/4.
SmoothInputs ==
    {R(k, SmoothDenominator) :
        k \in -(SmoothDenominator \div 4) .. (SmoothDenominator + SmoothDenominator \div 4)}

InitSmooth ==
    /\ \E a \in SmoothInputs, b \in SmoothInputs : probe = [x |-> <<a, b>>, y |-> <<>>]
    /\ data = InitialData
    /\ filter = "alive"
    /\ tick = "idle"
    /\ server_chan = <<>>
    /\ filter_chan = <<>>
    /\ watcher = "start"
    /\ last = "create"
    /\ nSent = 0
    /\ processed = <<>>
    /\ tickStart = {}
    /\ nUpdates = 0
    /\ sinceOff = FALSE
    /\ shutdown = "no"
    /\ watcherDiscards = FALSE
    /\ waitsAfterShutdown = 0
    /\ lastSnap = <<>>
    /\ tracking = FALSE
    /\ pending = <<>>
    /\ inTick = <<>>
    /\ sentAtShutdown = <<>>
    /\ elapsed = Zero
    /\ cd = <<>>

ApplySmoothStep ==
    /\ probe.y = <<>>
    /\ probe' = [probe EXCEPT !.y = <<smooth_step(probe.x[1]), smooth_step(probe.x[2])>>]
    /\ UNCHANGED <<data, filter, tick, server_chan, filter_chan, watcher,
                   last, nSent, processed, tickStart, nUpdates, sinceOff,
                   shutdown, watcherDiscards, waitsAfterShutdown, lastSnap,
                   tracking, pending, inTick, sentAtShutdown, elapsed, cd>>

SpecSmooth == InitSmooth /\ [][ApplySmoothStep]_vars

(***************************************************************************)
(* ContextDependent (src/context.rs 88-218)                                *)
(*                                                                         *)
(* One wrapped value is followed from `new` through any sequence of `map`, *)
(* `disable` and `enable` to the drop of the wrapper that holds it.  Each  *)
(* of these takes `self` by value, so the wrapper it consumed is dropped   *)
(* when it returns.  A wrapper is [data, state]; data is <<>> for None and *)
(* <<vs>> for Some, vs being the set of values whose destructors           *)
(* ManuallyDrop::drop(data) runs.                                          *)
(***************************************************************************)
MaxOps == 4

\* What Option::take leaves behind without the taking.
takeLeaves(opt) == opt

\* Option::take: the option is None afterwards (context.rs 115, 122, 156).
take(opt) == <<>>

\* context.rs 50-58
is_enabled(state) == state = "Enabled"

\* context.rs 179-218: what the drop of wrapper w does, enterOk being whether
\* C::enter returns Some.
drop(w, enterOk) ==
    IF w.data = <<>>
    THEN [destroys |-> {}, enter |-> "none", panics |-> FALSE]
    ELSE IF is_enabled(w.state)
    THEN [destroys |-> w.data[1], enter |-> "none", panics |-> FALSE]
    ELSE IF enterOk
    THEN [destroys |-> w.data[1], enter |-> "ok", panics |-> FALSE]
    ELSE [destroys |-> w.data[1], enter |-> "failed", panics |-> TRUE]

\* The record cd after a wrapper w was dropped: destructor runs are counted
\* per value, drops that ran none are counted, a panic ends the run.
AfterDrop(c, w, enterOk) ==
    LET d == drop(w, enterOk)
    IN  [c EXCEPT !.dtor = [v \in DOMAIN c.dtor |->
                               IF v \in d.destroys THEN c.dtor[v] + 1 ELSE c.dtor[v]],
                  !.emptyDrops = IF d.destroys = {} THEN c.emptyDrops + 1
                                 ELSE c.emptyDrops,
                  !.enter = IF d.enter = "none" THEN c.enter ELSE d.enter,
                  !.phase = IF d.panics THEN "panicked" ELSE c.phase]

InitContext ==
    /\ cd = [phase |-> "unborn",
             w |-> [data |-> <<>>, state |-> "Enabled"],
             created |-> 0,
             dtor |-> [v \in 1..(MaxOps + 1) |-> 0],
             emptyDrops |-> 0,
             enter |-> "none",
             trace |-> <<>>]
    /\ data = InitialData
    /\ filter = "alive"
    /\ tick = "idle"
    /\ server_chan = <<>>
    /\ filter_chan = <<>>
    /\ watcher = "start"
    /\ last = "create"
    /\ nSent = 0
    /\ processed = <<>>
    /\ tickStart = {}
    /\ nUpdates = 0
    /\ sinceOff = FALSE
    /\ shutdown = "no"
    /\ watcherDiscards = FALSE
    /\ waitsAfterShutdown = 0
    /\ tracking = FALSE
    /\ pending = <<>>
    /\ inTick = <<>>
    /\ sentAtShutdown = <<>>
    /\ lastSnap = <<>>
    /\ elapsed = Zero
    /\ probe = <<>>

ContextUnchanged ==
    UNCHANGED <<data, filter, tick, server_chan, filter_chan, watcher, last,
                nSent, processed, tickStart, nUpdates, sinceOff, shutdown,
                watcherDiscards, waitsAfterShutdown, tracking, pending,
                inTick, sentAtShutdown, lastSnap, elapsed, probe>>

\* context.rs 102-110
New ==
    /\ cd.phase = "unborn"
    /\ cd' = [cd EXCEPT !.phase = "live",
                        !.w = [data |-> <<{1}>>, state |-> "Enabled"],
                        !.created = 1,
                        !.trace = <<"new">>]
    /\ ContextUnchanged

\* context.rs 113-119; `self`, emptied by take, is dropped on return.
Disable ==
    /\ cd.phase = "live"
    /\ cd.w.state = "Enabled"
    /\ Len(cd.trace) <= MaxOps
    /\ \E enterOk \in BOOLEAN :
          LET taken == cd.w.data
              self == [cd.w EXCEPT !.data = take(cd.w.data)]
              moved == [cd EXCEPT !.w = [data |-> taken, state |-> "Disabled"],
                                  !.trace = Append(cd.trace, "disable")]
          IN  cd' = AfterDrop(moved, self, enterOk)
    /\ ContextUnchanged

\* context.rs 154-162; `self`, emptied by take, is dropped on return.
Enable ==
    /\ cd.phase = "live"
    /\ cd.w.state = "Disabled"
    /\ Len(cd.trace) <= MaxOps
    /\ \E enterOk \in BOOLEAN :
          LET taken == cd.w.data
              self == [cd.w EXCEPT !.data = take(cd.w.data)]
              moved == [cd EXCEPT !.w = [data |-> taken, state |-> "Enabled"],
                                  !.trace = Append(cd.trace, "enable")]
          IN  cd' = AfterDrop(moved, self, enterOk)
    /\ ContextUnchanged

\* context.rs 121-133: the closure receives the value by move and returns
\* another; it either keeps the old value inside the new one (keeps = TRUE) or
\* destroys it before returning.  `self`, emptied by take, is dropped on
\* return.
Map ==
    /\ cd.phase = "live"
    /\ cd.w.state = "Enabled"
    /\ Len(cd.trace) <= MaxOps
    /\ \E keeps \in BOOLEAN, enterOk \in BOOLEAN :
          LET taken == cd.w.data[1]
              self == [cd.w EXCEPT !.data = take(cd.w.data)]
              r == cd.created + 1
              mapped == IF keeps THEN taken \cup {r} ELSE {r}
              moved == [cd EXCEPT
                          !.w = [data |-> <<mapped>>, state |-> "Enabled"],
                          !.created = r,
                          !.dtor = [v \in DOMAIN cd.dtor |->
                                       IF ~keeps /\ v \in taken
                                       THEN cd.dtor[v] + 1 ELSE cd.dtor[v]],
                          !.trace = Append(cd.trace,
                                           IF keeps THEN "map_keep" ELSE "map_drop")]
          IN  cd' = AfterDrop(moved, self, enterOk)
    /\ ContextUnchanged

\* context.rs 179-218: the wrapper that holds the value goes out of scope.
DropLast ==
    /\ cd.phase = "live"
    /\ \E enterOk \in BOOLEAN :
          cd' = AfterDrop([cd EXCEPT !.phase = "dropped",
                                     !.w = [cd.w EXCEPT !.data = <<>>],
                                     !.trace = Append(cd.trace, "drop")],
                          cd.w, enterOk)
    /\ ContextUnchanged

NextContext == New \/ Disable \/ Enable \/ Map \/ DropLast

SpecContext == InitContext /\ [][NextContext]_vars

(***************************************************************************)
(* Properties                                                              *)
(***************************************************************************)
Range(q) == {q[i] : i \in 1..Len(q)}
RBetween(lo, x, hi) == RLe(lo, x) /\ RLe(x, hi)
AtRest(pan, zoom) == pan = <<Zero, Zero>> /\ zoom = One

\* C1: after every video_tick both components of current_pan lie in
\* [0, 1 - current_zoom]: the crop never leaves the screen region.
C1_PanWithinCrop ==
    last = "tick" =>
        /\ RBetween(Zero, data.current[1], RSub(One, data.current_zoom))
        /\ RBetween(Zero, data.current[2], RSub(One, data.current_zoom))

\* C2 as stated: after every video_tick current_zoom lies in
\* [internal_zoom, 1], also when an update arrived while progress < 1.
C2_ZoomWithinLimits ==
    last = "tick" => RBetween(data.internal_zoom, data.current_zoom, One)

\* C2 as amended: after every video_tick current_zoom lies in
\* [min(from_zoom, internal_zoom), 1], and in [internal_zoom, 1] when the
\* tick left progress = 1.
C2_ZoomWithinLimitsAmended ==
    last = "tick" =>
        /\ RBetween(RMin(data.from_zoom, data.internal_zoom), data.current_zoom, One)
        /\ data.progress = One =>
               RBetween(data.internal_zoom, data.current_zoom, One)

\* An update raised internal_zoom while the tween was in flight, and the
\* tick after it left the camera between from_zoom and the new ceiling.
C2_Witness ==
    /\ last = "tick"
    /\ nUpdates > 0
    /\ RLt(data.progress, One)
    /\ RLt(data.from_zoom, data.current_zoom)
    /\ RLt(data.current_zoom, data.internal_zoom)

\* C3: when the last snapshot processed was off-region and nothing arrived
\* after it, a tween that has run to its end shows the full view
\* (current_zoom = 1, current_pan = [0,0]).  Once progress = 1 further ticks
\* change nothing, so a state that breaks this never falls back.
C3_OffRegionFallsBack ==
    (sinceOff /\ last = "tick" /\ tick = "idle" /\ server_chan = <<>>
        /\ data.progress = One)
    => AtRest(data.current, data.current_zoom)

\* C4: processing an off-region snapshot while the tween is in flight
\* (progress < 1) toward a target other than (pan [0,0], zoom 1) retargets
\* to rest from the current camera and resets progress.
C4_OffRegionRetargets ==
    [][ ( /\ tick = "drain"
          /\ server_chan # <<>>
          /\ Len(processed') = Len(processed) + 1
          /\ OffRegion(data, Head(server_chan).snap)
          /\ RLt(data.progress, One)
          /\ ~AtRest(data.target, data.target_zoom) )
        => ( /\ data'.target = <<Zero, Zero>>
             /\ data'.target_zoom = One
             /\ data'.from = data.current
             /\ data'.from_zoom = data.current_zoom
             /\ data'.progress = Zero ) ]_vars

\* C5: a watcher whose Server::new failed never coexists with a live filter
\* instance: create does not hand out an instance in that case.
C5_NoInstanceWithoutWatcher ==
    ~(watcher = "panicked" /\ filter = "alive")

\* C6: destroying the filter sends the shutdown message (enqueued unless the
\* watcher thread is already gone); after that the watcher begins at most
\* one more wait_for_event, and the shutdown check that follows the return
\* of a wait ends the loop.
C6_ShutdownWithinOneWait ==
    /\ [](/\ filter = "destroyed" => shutdown # "no"
          /\ shutdown = "discarded" => watcher = "panicked"
          /\ waitsAfterShutdown <= 1)
    /\ [][ (shutdown = "enqueued" /\ watcher = "check" /\ watcher' # watcher)
           => watcher' = "exit" ]_vars

\* The watcher began one wait after the shutdown was enqueued and has left
\* its loop.
C6_Witness ==
    /\ shutdown = "enqueued"
    /\ waitsAfterShutdown = 1
    /\ watcher = "exit"

\* C7: a send whose receiver is gone is discarded: the watcher goes on with
\* its loop after such a send, and the drop of Data completes after one.
C7_SendFailuresDiscarded ==
    /\ watcherDiscards => watcher \in {"check", "wait", "exit"}
    /\ shutdown = "discarded" => filter = "destroyed"
    /\ filter \in {"alive", "destroyed"}

\* The watcher sent a snapshot after the filter was destroyed and went on
\* to its shutdown check.
C7_Witness ==
    /\ watcherDiscards
    /\ filter = "destroyed"
    /\ watcher = "check"

\* The owner sent the shutdown after the watcher thread had ended, and the
\* drop completed.
C7_WitnessOwner ==
    /\ shutdown = "discarded"
    /\ watcher = "panicked"
    /\ filter = "destroyed"

C9_FifoExactlyOnce ==
    /\ \A i \in 1..Len(processed) : processed[i] = i
    /\ filter = "alive" =>
           /\ Len(server_chan) = nSent - Len(processed)
           /\ \A i \in 1..Len(server_chan) :
                  server_chan[i].id = Len(processed) + i

\* Three snapshots were processed, two of them drained by one tick.
C9_Witness ==
    /\ Len(processed) = 3
    /\ Cardinality(tickStart) = 2
    /\ last = "tick"

\* C10: when a tick ends, every snapshot that was queued when it began has
\* been processed; and a tick that finds the channel empty can finish at
\* once (TickEnd is enabled), whatever the watcher is doing.
C10_DrainsWithoutBlocking ==
    /\ (last = "tick" /\ tick = "idle") => tickStart \subseteq Range(processed)
    /\ (tick = "drain" /\ server_chan = <<>>) => TickCanEnd

\* A tick began with two snapshots queued, a third arrived while it drained,
\* and it has ended.
C10_Witness ==
    /\ last = "tick"
    /\ tick = "idle"
    /\ Cardinality(tickStart) = 2
    /\ nSent = 3
    /\ server_chan = <<>>

\* A tick began and ended with nothing queued and the watcher still in
\* Server::new.
C10_WitnessEmptyTick ==
    /\ last = "tick"
    /\ tick = "idle"
    /\ tickStart = {}
    /\ nSent = 0
    /\ watcher = "start"

\* The step of video_tick that takes one snapshot off the channel.
RecvStep == tick = "drain" /\ server_chan # <<>> /\ Len(processed') = Len(processed) + 1

\* The candidate computed for snapshot s is the committed target.
IsTarget(d, s) ==
    /\ d.target = <<TargetX(d, s), TargetY(d, s)>>
    /\ d.target_zoom = WindowZoom(d, s)

\* C11: once a snapshot's candidate has been committed as the target,
\* processing the same snapshot again under the same configuration changes
\* nothing: progress is not reset and no from_* or target_* field changes
\* (ticks may have run between the two).
C11_RepeatedSnapshotNoOp ==
    [][(/\ RecvStep
        /\ ~OffRegion(data, Head(server_chan).snap)
        /\ IsTarget(data, Head(server_chan).snap))
       => data' = data]_vars

\* SnapBottomRight's candidate was committed as the target, a tick moved the
\* camera half way, and an on-region snapshot was then processed without a
\* commit (of the snapshots used only SnapBottomRight is that near the
\* target): the tween is still half way.
C11_Witness ==
    /\ last = "recv"
    /\ ~sinceOff
    /\ Len(processed) > 1
    /\ IsTarget(data, SnapBottomRight)
    /\ data.target_zoom # One
    /\ data.progress = R(1, 2)
    /\ data.current # data.from

\* C12: convergence. Once the ticks since the last change of from_*, target_*
\* or animation_time (elapsed, which a commit or retarget sets back to 0) add
\* up to at least animation_time, the camera is at its target: current =
\* target and current_zoom = target_zoom (exact arithmetic; the rounding of
\* f32/f64 is not modelled).
C12_Convergence ==
    (last = "tick" /\ RLe(data.animation_time, elapsed))
        => (data.current = data.target /\ data.current_zoom = data.target_zoom)

\* The camera has arrived at a target away from where it started, in pan and
\* in zoom, after ticks adding up to animation_time.
C12_Witness ==
    /\ last = "tick"
    /\ RLe(data.animation_time, elapsed)
    /\ data.from # data.target
    /\ data.from_zoom # data.target_zoom
    /\ data.current = data.target
    /\ data.current_zoom = data.target_zoom

\* C13: 0 <= progress <= 1 in every reachable state (frame times >= 0,
\* animation_time within [0.3, 10]).
C13_ProgressWithinUnit == RBetween(Zero, data.progress, One)

\* A tween over 0.3 s has been ticked to its end: the sum that line 168 caps
\* reached 1 (with the 0.6 s frame it passes 1).
C13_Witness ==
    /\ last = "tick"
    /\ data.animation_time = R(3, 10)
    /\ data.from # data.target
    /\ data.current = data.target
    /\ data.progress = One

\* C14: internal_zoom <= target_zoom <= 1 in every reachable state, whether
\* target_zoom was written by a commit, by the retarget to rest or by update
\* (zoom setting within [1, 5]).
C14_TargetZoomWithinLimits == RBetween(data.internal_zoom, data.target_zoom, One)

\* A commit wrote target_zoom: the window covers 0.2 of a region at zoom 2, so
\* ratio + margin = 0.3 was raised to internal_zoom = 0.5.
C14_Witness ==
    /\ last = "recv"
    /\ ~sinceOff
    /\ IsTarget(data, SnapBottomRight)
    /\ data.progress = Zero
    /\ data.internal_zoom = R(1, 2)
    /\ WindowZoomNoFloor(data, SnapBottomRight) = R(3, 10)
    /\ data.target_zoom = data.internal_zoom

\* A commit wrote target_zoom: the window covers the whole region, so
\* ratio + margin = 1.1 was cut to 1, above internal_zoom = 0.2.
C14_WitnessCeiling ==
    /\ last = "recv"
    /\ ~sinceOff
    /\ IsTarget(data, SnapFull)
    /\ data.from_zoom # One
    /\ data.progress = Zero
    /\ data.internal_zoom = R(1, 5)
    /\ data.target_zoom = One

\* A crop of width and height wz whose top-left corner is (tx, ty) lies within
\* the unit square.
PanWithinCrop(tx, ty, wz) ==
    /\ RBetween(Zero, tx, RSub(One, wz))
    /\ RBetween(Zero, ty, RSub(One, wz))

\* C15: for the snapshot about to be processed, if it is on-region, the
\* candidate pan computed for it satisfies 0 <= target_x <= 1 - window_zoom
\* and 0 <= target_y <= 1 - window_zoom, wherever the window's center lies.
C15_CandidatePanWithinCrop ==
    (server_chan # <<>> /\ ~OffRegion(data, Head(server_chan).snap))
        => LET s == Head(server_chan).snap
           IN  PanWithinCrop(TargetX(data, s), TargetY(data, s), WindowZoom(data, s))

\* A window whose center lies beyond the right and bottom edge of the region
\* was processed and its candidate committed: the pan sits at 1 - window_zoom.
C15_Witness ==
    /\ last = "recv"
    /\ lastSnap = <<SnapCenterOut>>
    /\ ~OffRegion(data, SnapCenterOut)
    /\ RLt(One, CenterX(data, SnapCenterOut))
    /\ RLt(One, CenterY(data, SnapCenterOut))
    /\ data.progress = Zero
    /\ data.target_zoom = WindowZoom(data, SnapCenterOut)
    /\ data.target = <<RSub(One, data.target_zoom), RSub(One, data.target_zoom)>>
    /\ data.target_zoom # One

\* A window whose center is nearer the left edge than half the crop: the pan
\* sits at 0.
C15_WitnessFloor ==
    /\ last = "recv"
    /\ lastSnap = <<SnapSmallOrigin>>
    /\ data.progress = Zero
    /\ data.target = <<Zero, Zero>>
    /\ data.target_zoom # One
    /\ RLt(CenterX(data, SnapSmallOrigin), RMul(R(1, 2), data.target_zoom))

\* C16: whenever video_render can run, the pan it passes has both components
\* in [0, 1] and the zoom it passes is in (0, 1] (zoom setting within [1, 5]).
C16_RenderParamsInRange ==
    filter = "alive" =>
        /\ \A i \in 1..2 : RBetween(Zero, param_add(data)[i], One)
        /\ \A i \in 1..2 : RLt(Zero, param_mul(data)[i]) /\ RLe(param_mul(data)[i], One)

\* Mid-tween towards a window at the left edge of the region: the pan passed
\* is strictly inside the unit square in y, 0 in x, and the zoom is below 1.
C16_Witness ==
    /\ filter = "alive"
    /\ last = "tick"
    /\ IsTarget(data, SnapLeftEdge)
    /\ data.progress = R(1, 2)
    /\ param_add(data)[1] = Zero
    /\ RLt(Zero, param_add(data)[2]) /\ RLt(param_add(data)[2], One)
    /\ RLt(param_mul(data)[1], One)

\* C17: an off-region snapshot processed while the target is already the
\* resting state (target = [0,0], target_zoom = 1) does not retarget:
\* target_*, from_* and progress are unchanged, so later ticks keep advancing
\* the tween that is under way.
C17_OffRegionAtRestNoRetarget ==
    [][(/\ RecvStep
        /\ OffRegion(data, Head(server_chan).snap)
        /\ AtRest(data.target, data.target_zoom))
       => data' = data]_vars

\* The camera was retargeted to rest from elsewhere, a tick moved it half way
\* back, and an off-region snapshot was then processed: the tween is still
\* half way, from where it started.
C17_Witness ==
    /\ last = "recv"
    /\ sinceOff
    /\ Len(processed) > 1
    /\ AtRest(data.target, data.target_zoom)
    /\ ~AtRest(data.from, data.from_zoom)
    /\ data.progress = R(1, 2)
    /\ data.current # data.from
    /\ data.current # data.target

\* Zoom ceiling 1.0 and the camera, its tween's start and its target all at
\* the full view.
CameraAtRest(d) ==
    /\ d.internal_zoom = One
    /\ AtRest(d.current, d.current_zoom)
    /\ AtRest(d.target, d.target_zoom)
    /\ AtRest(d.from, d.from_zoom)

\* C18: with internal_zoom = 1, every on-region snapshot, whatever its
\* geometry, gives window_zoom = 1 and candidate pan [0,0]; and a filter whose
\* internal_zoom has been 1 since creation keeps its camera at current_zoom = 1,
\* current = [0,0] through every sequence of snapshots and ticks (the camera
\* is there at creation, and every step with internal_zoom = 1 keeps it there).
C18_NoZoomAtCeilingOne ==
    /\ [](/\ data.internal_zoom = One =>
               \A s \in GeomSnapshots :
                   ~OffRegion(data, s) =>
                       /\ WindowZoom(data, s) = One
                       /\ TargetX(data, s) = Zero
                       /\ TargetY(data, s) = Zero
          /\ last = "create" => CameraAtRest(data))
    /\ [][(CameraAtRest(data) /\ data'.internal_zoom = One)
             => CameraAtRest(data')]_vars

\* Zoom ceiling 1.0 since creation, set again by an update: two snapshots, the
\* last a small on-region window, were processed, ticks ran for the whole
\* animation time, and the camera is where it was.
C18_Witness ==
    /\ last = "tick"
    /\ nUpdates > 0
    /\ lastSnap = <<SnapBottomRight>>
    /\ Len(processed) > 1
    /\ elapsed = data.animation_time
    /\ CameraAtRest(data)
    /\ data.progress = One

\* clamp(t, 0, 1)
Clamp01(t) == IF RLt(t, Zero) THEN Zero ELSE IF RLt(One, t) THEN One ELSE t

\* C19: smooth_step maps [0,1] into [0,1], takes 0 to 0 and 1 to 1, is
\* monotonically non-decreasing on [0,1], and equals c*c*(3 - 2c) for
\* c = clamp(t, 0, 1), so that arguments below 0 give 0 and above 1 give 1.
C19_SmoothStep ==
    probe.y # <<>> =>
        LET t == probe.x[1]
            u == probe.x[2]
            st == probe.y[1]
            su == probe.y[2]
            c == Clamp01(t)
        IN  /\ RBetween(Zero, t, One) => RBetween(Zero, st, One)
            /\ t = Zero => st = Zero
            /\ t = One => st = One
            /\ (RLe(Zero, t) /\ RLe(t, u) /\ RLe(u, One)) => RLe(st, su)
            /\ st = RSub(RMul(Int2R(3), RMul(c, c)), RMul(Int2R(2), RMul(c, RMul(c, c))))
            /\ RLt(t, Zero) => st = Zero
            /\ RLt(One, t) => st = One

\* smooth_step was applied to 1/4 and 3/4: 5/32 and 27/32.
C19_Witness ==
    /\ probe.y # <<>>
    /\ probe.x = <<R(1, 4), R(3, 4)>>
    /\ probe.y = <<R(5, 32), R(27, 32)>>

\* smooth_step was applied to -1/4 and 5/4: 0 and 1.
C19_WitnessOutside ==
    /\ probe.y # <<>>
    /\ probe.x = <<R(-1, 4), R(5, 4)>>
    /\ probe.y = <<Zero, One>>

\* No snapshot has been processed and no update has run since creation.
BeforeFirstInput == nUpdates = 0 /\ processed = <<>>

\* C20, as stated: at creation the from, target and current pan and the from,
\* target and current zoom are all zero and progress = 1; ticks before the
\* first snapshot or update move nothing.
C20_StartsZeroed ==
    BeforeFirstInput =>
        /\ data.from = <<Zero, Zero>>
        /\ data.target = <<Zero, Zero>>
        /\ data.current = <<Zero, Zero>>
        /\ data.from_zoom = Zero
        /\ data.target_zoom = Zero
        /\ data.current_zoom = Zero
        /\ data.progress = One

\* C20, amended: at creation the from, target and current pan are [0,0], the
\* from, target and current zoom are 1.0 (the full view) and progress = 1;
\* ticks before the first snapshot or update leave all of them as they are.
C20_StartsAtRest ==
    BeforeFirstInput =>
        /\ data.from = <<Zero, Zero>>
        /\ data.target = <<Zero, Zero>>
        /\ data.current = <<Zero, Zero>>
        /\ data.from_zoom = One
        /\ data.target_zoom = One
        /\ data.current_zoom = One
        /\ data.progress = One

\* A tick has run before any snapshot or update, with a snapshot queued
\* behind it that it did not see.
C20_Witness ==
    /\ BeforeFirstInput
    /\ last = "tick"
    /\ tick = "idle"
    /\ tickStart = {}
    /\ server_chan # <<>>

\* The values that exist: 1 from `new`, one more from each `map`.
CreatedValues == 1..cd.created

\* C21: for any sequence of new, map, disable and enable that ends with the
\* drop of the wrapper holding the value, every value's destructor has run
\* exactly once; while the wrapper lives, the values it holds have not been
\* destroyed, and every wrapper consumed on the way dropped nothing.  If the
\* last wrapper was Disabled, the destructor ran after C::enter succeeded, or
\* C::enter failed, the destructor ran all the same and the drop panicked;
\* nothing else panics.
C21_DestructorRunsOnce ==
    /\ cd.phase = "live" =>
          /\ \A v \in cd.w.data[1] : cd.dtor[v] = 0
          /\ \A v \in CreatedValues \ cd.w.data[1] : cd.dtor[v] = 1
          /\ cd.emptyDrops = Len(cd.trace) - 1
    /\ cd.phase \in {"dropped", "panicked"} =>
          /\ \A v \in CreatedValues : cd.dtor[v] = 1
          /\ \A v \in DOMAIN cd.dtor \ CreatedValues : cd.dtor[v] = 0
          /\ cd.emptyDrops = Len(cd.trace) - 2
          /\ cd.trace[Len(cd.trace)] = "drop"
    /\ cd.phase = "dropped" =>
          cd.enter = IF cd.w.state = "Disabled" THEN "ok" ELSE "none"
    /\ cd.phase = "panicked" => (cd.w.state = "Disabled" /\ cd.enter = "failed")

\* new, map, disable, enable, disable, then the Disabled wrapper is dropped and
\* C::enter succeeds: both values have been destroyed once.
C21_Witness ==
    /\ cd.phase = "dropped"
    /\ cd.trace = <<"new", "map_keep", "disable", "enable", "disable", "drop">>
    /\ cd.enter = "ok"
    /\ cd.emptyDrops = 4
    /\ cd.dtor[1] = 1 /\ cd.dtor[2] = 1

\* new, disable, then the Disabled wrapper is dropped and C::enter fails: the
\* value has been destroyed once and the drop panicked.
C21_WitnessEnterFails ==
    /\ cd.phase = "panicked"
    /\ cd.trace = <<"new", "disable", "drop">>
    /\ cd.enter = "failed"
    /\ cd.dtor[1] = 1

\* a and b are more than 0.001 apart.
FartherThanThreshold(a, b) ==
    \/ RLt(R(1, 1000), RSub(a, b))
    \/ RLt(R(1, 1000), RSub(b, a))

\* C22: an on-region snapshot commits (from_pan = current_pan, from_zoom =
\* current_zoom, target = the candidate, progress = 0) if and only if the
\* candidate's x, y or zoom is more than 0.001 away from the old target's;
\* when none is (a difference of exactly 0.001 included), no CameraState field
\* changes.
C22_CommitIffBeyondThreshold ==
    [][(RecvStep /\ ~OffRegion(data, Head(server_chan).snap)) =>
        LET s == Head(server_chan).snap
            target_x == TargetX(data, s)
            target_y == TargetY(data, s)
            window_zoom == WindowZoom(data, s)
        IN  IF \/ FartherThanThreshold(target_x, data.target[1])
               \/ FartherThanThreshold(target_y, data.target[2])
               \/ FartherThanThreshold(window_zoom, data.target_zoom)
            THEN /\ data'.from = data.current
                 /\ data'.from_zoom = data.current_zoom
                 /\ data'.target = <<target_x, target_y>>
                 /\ data'.target_zoom = window_zoom
                 /\ data'.progress = Zero
                 /\ data'.current = data.current
                 /\ data'.current_zoom = data.current_zoom
            ELSE data' = data]_vars

\* SnapStep1 was processed while the target was the candidate of SnapStep0,
\* exactly 0.001 to its left, and was not committed.
C22_Witness ==
    /\ last = "recv"
    /\ lastSnap = <<SnapStep1>>
    /\ data.screen_width = 1000
    /\ IsTarget(data, SnapStep0)
    /\ RSub(TargetX(data, SnapStep1), data.target[1]) = R(1, 1000)

\* A snapshot was committed while the camera was under way: the tween starts
\* from where the camera is, away from the old and the new target.
C22_WitnessCommit ==
    /\ last = "recv"
    /\ lastSnap # <<>>
    /\ IsTarget(data, lastSnap[1])
    /\ data.progress = Zero
    /\ data.from = data.current
    /\ data.from # data.target
    /\ ~AtRest(data.from, data.from_zoom)
    /\ RLt(Zero, data.from[1])

\* The step that is one call of update, and the step that ends a tick.
UpdateStep == nUpdates' = nUpdates + 1
TickEndStep == tick = "drain" /\ tick' = "idle"

\* What update does to the zoom fields and what it leaves alone.
UpdateSetsZoomOnly ==
    UpdateStep =>
        /\ \E st \in CandidateSettings :
              /\ RMul(data'.internal_zoom, st.zoom) = One
              /\ data'.animation_time = st.animation_time
              /\ data'.screen_width = st.screen_width
        /\ data'.from_zoom = data.current_zoom
        /\ data'.target_zoom = data'.internal_zoom
        /\ data'.progress = data.progress
        /\ data'.from = data.from
        /\ data'.target = data.target
        /\ data'.current = data.current

\* The statement as written: after an update that found progress = 1, the
\* very next tick ends with current_zoom = internal_zoom.
C23_NextTickReachesInternalZoom ==
    [][/\ UpdateSetsZoomOnly
       /\ (TickEndStep /\ pending # <<>> /\ pending[1].progress = One)
              => data'.current_zoom = data'.internal_zoom]_vars

\* C23: update sets internal_zoom = 1 / zoom, from_zoom = current_zoom and
\* target_zoom = internal_zoom and leaves progress, from_pan, target_pan and
\* current_pan unchanged; if it found progress = 1 and the very next tick
\* commits no retarget (progress is still 1 when its animation step runs),
\* that tick ends with current_zoom = the new internal_zoom, with no eased
\* value in between.
C23_UpdateZoomTakesEffectNextTick ==
    [][/\ UpdateSetsZoomOnly
       /\ (/\ TickEndStep
           /\ pending # <<>>
           /\ pending[1].progress = One
           /\ data.progress = One)
              => /\ data'.current_zoom = data'.internal_zoom
                 /\ data'.internal_zoom = data.internal_zoom]_vars

\* The zoom setting went from 1 to 5 at rest and a tick has ended since:
\* current_zoom is 1/5, from_zoom still 1.
C23_Witness ==
    /\ last = "tick"
    /\ nUpdates = 1
    /\ processed = <<>>
    /\ data.progress = One
    /\ data.from_zoom = One
    /\ data.internal_zoom = R(1, 5)
    /\ data.current_zoom = R(1, 5)

\* C24: an update whose zoom setting is the one already in force (only the
\* region or animation_time differ) leaves progress, from_pan, target_pan,
\* from_zoom and target_zoom unchanged, also when target_zoom was set by a
\* window snapshot and differs from internal_zoom.
C24_RegionUpdateKeepsTween ==
    [][(UpdateStep /\ data'.internal_zoom = data.internal_zoom) =>
        /\ data'.progress = data.progress
        /\ data'.from = data.from
        /\ data'.target = data.target
        /\ data'.from_zoom = data.from_zoom
        /\ data'.target_zoom = data.target_zoom]_vars

\* The part of C24 about a target_zoom that a window snapshot set.
C24_SnapshotTargetZoomKept ==
    [][(/\ UpdateStep
        /\ data'.internal_zoom = data.internal_zoom
        /\ lastSnap # <<>>
        /\ data.progress = One
        /\ data.current_zoom = data.target_zoom)
       => data'.target_zoom = data.target_zoom]_vars

\* Each snapshot is handled before the animation step: it leaves current_*
\* alone, and when it changes anything it restarts the tween from current_*.
RetargetBeforeAnimation ==
    RecvStep =>
        /\ data'.current = data.current
        /\ data'.current_zoom = data.current_zoom
        /\ data' # data =>
              /\ data'.progress = Zero
              /\ data'.from = data.current
              /\ data'.from_zoom = data.current_zoom

\* The animation step of a tick that drained a snapshot and found the tween
\* restarted: progress ends at min(1, dt / animation_time) and current_* on
\* the way from where it was before the tick to the target.
AnimationAfterRetarget ==
    (TickEndStep /\ last = "recv" /\ data.progress = Zero) =>
        \E dt \in FrameTimes :
            LET p == RMin(One, RDiv(dt, data.animation_time))
                e == smooth_step(p)
                Toward(a, b) == RAdd(a, RMul(RSub(b, a), e))
            IN  /\ data'.progress = p
                /\ data'.current[1] = Toward(data.current[1], data.target[1])
                /\ data'.current[2] = Toward(data.current[2], data.target[2])
                /\ data'.current_zoom = Toward(data.current_zoom, data.target_zoom)

\* C25: within one tick the retarget logic runs for every drained snapshot
\* before the animation advances: a tick that commits a retarget ends with
\* progress = min(1, dt / animation_time) and with current_* interpolated
\* from the pre-tick current_* toward the new target.
C25_RetargetThenAnimate ==
    [][RetargetBeforeAnimation /\ AnimationAfterRetarget]_vars

\* The tick that drained the only snapshot so far committed it while the
\* camera was elsewhere and advanced by dt = 0.3 of 0.6: progress is 1/2 and
\* the camera half way between where it was and the new target.
C25_Witness ==
    /\ last = "tick"
    /\ tickStart # {}
    /\ Len(processed) = 1
    /\ IsTarget(data, lastSnap[1])
    /\ data.from # data.target
    /\ data.animation_time = R(3, 5)
    /\ data.progress = R(1, 2)
    /\ RSub(data.current[1], data.from[1]) = RSub(data.target[1], data.current[1])
    /\ RSub(data.current_zoom, data.from_zoom) = RSub(data.target_zoom, data.current_zoom)

\* clamp(v, lo, hi) for lo <= hi.
Clamp(v, lo, hi) == IF RLt(v, lo) THEN lo ELSE IF RLt(hi, v) THEN hi ELSE v

\* The larger of the window's width and height as fractions of the region,
\* plus the margin of 0.1.
RatioPlusMargin(d, s) ==
    LET rw == R(s.width, d.screen_width)
        rh == R(s.height, d.screen_height)
    IN  RAdd(IF RLt(rw, rh) THEN rh ELSE rw, R(1, 10))

\* C26: for the snapshot about to be processed, the candidate zoom is
\* clamp(max(width / region.width, height / region.height) + 0.1,
\* internal_zoom, 1) (internal_zoom itself when the ratio plus margin is
\* below it), and when the snapshot is on-region the candidate pan is
\* clamp(c - 0.5 * window_zoom, 0, 1 - window_zoom) on each axis, c being the
\* window's center as a fraction of the region.
C26_CandidateFormulas ==
    server_chan # <<>> =>
        LET s == Head(server_chan).snap
            wz == Clamp(RatioPlusMargin(data, s), data.internal_zoom, One)
            cx == R(2 * (s.x - data.screen_x) + s.width, 2 * data.screen_width)
            cy == R(2 * (s.y - data.screen_y) + s.height, 2 * data.screen_height)
        IN  /\ WindowZoom(data, s) = wz
            /\ RLt(RatioPlusMargin(data, s), data.internal_zoom)
                  => WindowZoom(data, s) = data.internal_zoom
            /\ ~OffRegion(data, s) =>
                  /\ TargetX(data, s) = Clamp(RSub(cx, RMul(R(1, 2), wz)), Zero, RSub(One, wz))
                  /\ TargetY(data, s) = Clamp(RSub(cy, RMul(R(1, 2), wz)), Zero, RSub(One, wz))

\* Scenario B: region (0,0,1920,1080), zoom setting 5, snapshot (0,0,100,100)
\* processed: its ratio plus margin is below internal_zoom = 1/5, and the
\* target is zoom 1/5 at pan [0,0].
C26_Witness ==
    /\ last = "recv"
    /\ lastSnap = <<SnapSmallOrigin>>
    /\ data.screen_width = 1920
    /\ data.screen_height = 1080
    /\ data.internal_zoom = R(1, 5)
    /\ RLt(RatioPlusMargin(data, SnapSmallOrigin), R(1, 5))
    /\ data.target_zoom = R(1, 5)
    /\ data.target = <<Zero, Zero>>
    /\ IsTarget(data, SnapSmallOrigin)

\* The tick that is ending drained no snapshot.
TickDrainedNothing == tickStart = {} \/ last = "tick"

\* C27: once converged the tween is idempotent: a tick that drains nothing,
\* run with progress = 1 after a tick has already run since from_* or
\* target_* last changed, leaves every camera field unchanged whatever dt is;
\* and a tick that drains nothing never changes from_pan, from_zoom,
\* target_pan or target_zoom, in any state.
C27_IdempotentOnceConverged ==
    [][/\ (/\ TickEndStep
           /\ TickDrainedNothing
           /\ data.progress = One
           /\ (last = "tick" \/ RLt(Zero, elapsed)))
              => data' = data
       /\ ((tick' # tick) /\ TickDrainedNothing)
              => /\ data'.from = data.from
                 /\ data'.from_zoom = data.from_zoom
                 /\ data'.target = data.target
                 /\ data'.target_zoom = data.target_zoom]_vars

\* A committed tween away from rest has converged and the last tick drained
\* nothing.
C27_Witness ==
    /\ last = "tick"
    /\ tickStart = {}
    /\ lastSnap # <<>>
    /\ data.progress = One
    /\ elapsed = data.animation_time
    /\ data.from # data.target
    /\ ~AtRest(data.target, data.target_zoom)
    /\ data.current = data.target
    /\ data.current_zoom = data.target_zoom

\* C28: while a tick drains, current_* stays what the tick found; once the
\* drain has committed, from_pan and from_zoom are that pre-tick current_*
\* whichever and however many snapshots committed, progress is 0, and the
\* target is the candidate of the last snapshot that committed (the resting
\* state when that one was off-region), also when this is the target the
\* tick found.  The last state of the drain is the one the animation step
\* runs in.
C28_DrainCommitsFromPreTickCurrent ==
    (tick = "drain" /\ inTick # <<>>) =>
        LET d0 == inTick[1].start
            commits == inTick[1].commits
        IN  /\ data.current = d0.current
            /\ data.current_zoom = d0.current_zoom
            /\ commits = <<>> => data = d0
            /\ commits # <<>> =>
                  LET s == commits[Len(commits)]
                  IN  /\ data.from = d0.current
                      /\ data.from_zoom = d0.current_zoom
                      /\ data.progress = Zero
                      /\ IF OffRegion(data, s)
                         THEN AtRest(data.target, data.target_zoom)
                         ELSE IsTarget(data, s)

\* One drain committed two snapshots while the camera was under way, the
\* second leading back to the target the tick found: progress is 0 and the
\* tween starts from the pre-tick position.
C28_Witness ==
    /\ tick = "drain"
    /\ inTick # <<>>
    /\ Len(inTick[1].commits) = 2
    /\ server_chan = <<>>
    /\ data.target = inTick[1].start.target
    /\ data.target_zoom = inTick[1].start.target_zoom
    /\ data.progress = Zero
    /\ inTick[1].start.progress = R(1, 2)
    /\ inTick[1].start.current # inTick[1].start.target
    /\ inTick[1].start.current # inTick[1].start.from
    /\ data.from = inTick[1].start.current

\* a and b are at most 0.001 apart.
WithinThreshold(a, b) ==
    /\ RLe(RSub(a, b), R(1, 1000))
    /\ RLe(RSub(b, a), R(1, 1000))

\* C29: right after an on-region snapshot has been processed, committed or
\* not, target_x, target_y and target_zoom are each within 0.001 of that
\* snapshot's candidate, whatever snapshots came before.
C29_TargetTracksLastSnapshot ==
    (last = "recv" /\ lastSnap # <<>> /\ ~OffRegion(data, lastSnap[1])) =>
        LET s == lastSnap[1]
        IN  /\ WithinThreshold(data.target[1], TargetX(data, s))
            /\ WithinThreshold(data.target[2], TargetY(data, s))
            /\ WithinThreshold(data.target_zoom, WindowZoom(data, s))

\* The camera had settled on SnapStep0's candidate; SnapStep2, 0.002 to its
\* right, was then processed and is the target: one pixel more than the
\* step the threshold absorbs and the target follows.
C29_Witness ==
    /\ last = "recv"
    /\ lastSnap = <<SnapStep2>>
    /\ data.screen_width = 1000
    /\ data.from = <<TargetX(data, SnapStep0), TargetY(data, SnapStep0)>>
    /\ data.progress = Zero
    /\ IsTarget(data, SnapStep2)
    /\ RSub(data.target[1], data.from[1]) = R(2, 1000)

\* SnapStep1 was processed after SnapStep0 in the same drain and not
\* committed: the target is one threshold away from its candidate, no more.
C29_WitnessSubThreshold ==
    /\ last = "recv"
    /\ lastSnap = <<SnapStep1>>
    /\ inTick # <<>>
    /\ inTick[1].commits = <<SnapStep0>>
    /\ processed = <<1, 2>>
    /\ RSub(TargetX(data, SnapStep1), data.target[1]) = R(1, 1000)

\* Snapshots the watcher sent after the owner sent the shutdown message.
SentAfterShutdown ==
    IF sentAtShutdown = <<>> THEN 0 ELSE nSent - sentAtShutdown[1]

\* C30: however destruction interleaves with the watcher loop, the watcher
\* sends at most one snapshot after the shutdown message was enqueued and
\* none once it has received it; and every return of wait_for_event, with a
\* snapshot or without, is followed by the shutdown check, which ends the
\* loop when the message is there.
C30_AtMostOneSnapshotAfterShutdown ==
    /\ [](SentAfterShutdown <= 1)
    /\ [][/\ watcher = "exit" => (nSent' = nSent /\ watcher' = "exit")
          /\ (watcher = "wait" /\ watcher' # watcher) => watcher' = "check"
          /\ (watcher = "check" /\ watcher' # watcher) =>
                watcher' = IF filter_chan # <<>> THEN "exit" ELSE "wait"]_vars

\* The watcher sent a snapshot after the shutdown message was enqueued and
\* before Data.receive was dropped, so that the snapshot was enqueued too,
\* then received the message and left its loop.
C30_Witness ==
    /\ shutdown = "enqueued"
    /\ filter = "dropping"
    /\ SentAfterShutdown = 1
    /\ server_chan # <<>>
    /\ server_chan[Len(server_chan)].id = nSent
    /\ watcher = "exit"

\* wait_for_event returned without a snapshot after the shutdown message was
\* enqueued, and the check that followed ended the loop.
C30_WitnessNoSnapshot ==
    /\ shutdown = "enqueued"
    /\ sentAtShutdown # <<>>
    /\ SentAfterShutdown = 0
    /\ nSent = 0
    /\ watcher = "exit"

====
